---- MODULE Spec2Model ----
(***************************************************************************)
(* The History network JSON-RPC request handlers of trin-history           *)
(* (src/trin-history/src/jsonrpc.rs): every handler of complete_request    *)
(* that reads or writes the content store, starts an overlay lookup or     *)
(* pings a peer, as a state machine over the content store, the routing    *)
(* table and the request being handled.                                    *)
(***************************************************************************)
EXTENDS Integers, Sequences, FiniteSets, TLC

VARIABLES
    store,        \* overlay.store: content key -> Option<Vec<u8>>
    table,        \* routing table: peer -> Option<last known radius>
    data_radius,  \* overlay.data_radius(): the local node's own radius
    pc,           \* position of the task that handles the request
    req,          \* the request being handled (endpoint and arguments)
    locals,       \* the handler's local variables
    resp,         \* the Result<Value, String> sent on request.resp
    lookups,      \* overlay.lookup_content calls started for this request
    written,      \* history: key -> Option<bytes of the last store that returned true>
    net,          \* messages this request put on the network: offers, bodies, gossip pushes
    rx,           \* history_rx: the inbound request queue and whether it is closed
    tasks,        \* the tasks spawned by handle_client_queries, in spawn order
    loop,         \* position of handle_client_queries
    clients,      \* the requests sent so far: endpoint, and whether resp is still listened to
    pt            \* ethportal-peertest: launch_peertest_nodes and AllPeertestNodes

conc == <<rx, tasks, loop, clients>>

vars == <<store, table, data_radius, pc, req, locals, resp, lookups, written,
          net, rx, tasks, loop, clients, pt>>

-----------------------------------------------------------------------------
(* Bounds of the model *)

NumKeys == 2        \* content keys 1..NumKeys
MaxLen == 1         \* longest content value, in bytes
NumPeers == 2       \* peers 1..NumPeers; the local node is 0
MaxRadius == 2      \* radii 1..MaxRadius
MaxFound == 17      \* longest list overlay.lookup_node returns
MaxReq == 2         \* requests sent to the handler in one run

Keys == 1..NumKeys
Peers == 1..NumPeers
Radii == 1..MaxRadius
LocalNode == 0
ByteVals == {0, 171}
Bytes == UNION {[1..n -> ByteVals] : n \in 0..MaxLen}

(* The parts of the state a specification leaves at rest *)
NetIdle == [offers |-> 0, bodies |-> 0, pushes |-> [p \in Peers |-> "none"]]
NetQuiet == net = NetIdle
ConcQuiet ==
    /\ rx = [queue |-> <<>>, closed |-> FALSE]
    /\ tasks = <<>>
    /\ loop = [pc |-> "recv"]
    /\ clients = <<>>
PeertestQuiet == pt = [pc |-> "idle"]

-----------------------------------------------------------------------------
(* Option<T>: None is the empty sequence, Some(x) the sequence of x *)

None == <<>>
Some(x) == <<x>>
IsSome(o) == Len(o) = 1
Unwrap(o) == o[1]

(* serde_json::Value and Result<Value, String> *)

JString(s) == [t |-> "String", s |-> s]
JBool(b) == [t |-> "Bool", b |-> b]
Ok(v) == [ok |-> TRUE, value |-> v]
Err(msg) == [ok |-> FALSE, value |-> JString(<<msg>>)]
NoResp == [ok |-> FALSE, value |-> [t |-> "Pending"]]

-----------------------------------------------------------------------------
(* hex_encode and CONTENT_ABSENT: a hex string is "0x" followed by two     *)
(* digits per byte                                                         *)

HexDigits == <<"0", "1", "2", "3", "4", "5", "6", "7",
               "8", "9", "a", "b", "c", "d", "e", "f">>

RECURSIVE HexBody(_)
HexBody(bytes) ==
    IF bytes = <<>> THEN <<>>
    ELSE <<HexDigits[(bytes[1] \div 16) + 1], HexDigits[(bytes[1] % 16) + 1]>>
             \o HexBody(Tail(bytes))

hex_encode(bytes) == <<"0x">> \o HexBody(bytes)

CONTENT_ABSENT == <<"0x">>

DigitVal(d) == CHOOSE i \in 0..15 : HexDigits[i + 1] = d

RECURSIVE HexDecodeBody(_)
HexDecodeBody(digits) ==
    IF digits = <<>> THEN <<>>
    ELSE <<16 * DigitVal(digits[1]) + DigitVal(digits[2])>>
             \o HexDecodeBody(SubSeq(digits, 3, Len(digits)))

(* serde_json::from_value into the content of TraceContentInfo: "0x" is    *)
(* absent content, any other hex string of whole bytes is present content  *)
from_value(s) ==
    IF s = CONTENT_ABSENT THEN [ok |-> TRUE, absent |-> TRUE, bytes |-> <<>>]
    ELSE IF Len(s) % 2 = 1 /\ s[1] = "0x"
         THEN [ok |-> TRUE, absent |-> FALSE, bytes |-> HexDecodeBody(Tail(s))]
         ELSE [ok |-> FALSE, absent |-> FALSE, bytes |-> <<>>]

(* json!(content): the content serialised again as a hex string *)
ContentToJson(c) == IF c.absent THEN CONTENT_ABSENT ELSE hex_encode(c.bytes)

(* HistoryContentValue and ContentValue::encode: the SSZ bytes of the      *)
(* variant's payload, without the variant. A block body never encodes to   *)
(* zero bytes; a list of no receipts does                                  *)
ContentKinds == {"BlockBody", "Receipts"}
ContentValues ==
    {v \in [kind : ContentKinds, payload : Bytes] :
        v.kind = "BlockBody" => v.payload # <<>>}
encode(content_value) == content_value.payload

-----------------------------------------------------------------------------
(* ContentStore: get and put either fail with a database error or act on   *)
(* the stored map                                                          *)

StoreGet(st, key, fails) ==
    IF fails THEN [ok |-> FALSE, val |-> None]
    ELSE [ok |-> TRUE, val |-> st[key]]

StorePut(st, key, data, fails) ==
    IF fails THEN [ok |-> FALSE, store |-> st]
    ELSE [ok |-> TRUE, store |-> [st EXCEPT ![key] = Some(data)]]

(* QueryTrace::new and node_responded_with_content *)

NewTrace(origin, target) ==
    [origin |-> origin, target_id |-> target, received_from |-> None]

NodeRespondedWithContent(trace, node) ==
    [trace EXCEPT !.received_from = Some(node)]

KnownPeers(tbl) == {p \in Peers : IsSome(tbl[p])}

(* overlay.lookup_content(key, is_trace): with no known peer the lookup    *)
(* ends at once with absent content and, if traced, a trace in which no    *)
(* peer responded; otherwise any content with or without a trace           *)
LookupContent(key, is_trace, peers) ==
    IF peers = {}
    THEN {[content |-> None,
           trace |-> IF is_trace THEN Some(NewTrace(LocalNode, key)) ELSE None]}
    ELSE {[content |-> c, trace |-> t] :
            c \in {None} \cup {Some(b) : b \in Bytes},
            t \in {None} \cup {Some(NewTrace(LocalNode, key))}
                         \cup {Some(NodeRespondedWithContent(NewTrace(LocalNode, key), p)) :
                                 p \in peers}}

-----------------------------------------------------------------------------
(* recursive_find_content *)

(* lines 93-104: the local store is read; a store error is logged and the  *)
(* key is treated as not stored locally                                    *)
LocalContentOf(get) == IF get.ok THEN get.val ELSE None

(* LocalHit without the call of node_responded_with_content *)
LocalHitNoResponder(val, key, is_trace) ==
    [content |-> Some(val),
     trace |-> IF is_trace THEN Some(NewTrace(LocalNode, key)) ELSE None]

(* lines 106-114: a local hit builds a trace whose responder is the local  *)
(* node and keeps it only when tracing was requested                       *)
LocalHit(val, key, is_trace) ==
    [content |-> Some(val),
     trace |-> IF is_trace
               THEN Some(NodeRespondedWithContent(NewTrace(LocalNode, key), LocalNode))
               ELSE None]

(* FindContentResponse answering a traced request that has no trace with   *)
(* the bare content                                                        *)
FindContentResponseUntracedFallback(possible_content_bytes, trace, is_trace) ==
    LET content_response_string ==
            IF IsSome(possible_content_bytes)
            THEN hex_encode(Unwrap(possible_content_bytes))
            ELSE CONTENT_ABSENT
    IN  IF is_trace /\ IsSome(trace)
        THEN Ok([t |-> "TraceContentInfo",
                 content |-> ContentToJson(from_value(content_response_string)),
                 trace |-> Unwrap(trace)])
        ELSE Ok(JString(content_response_string))

(* FindContentResponse answering absent content with an error *)
FindContentResponseAbsentError(possible_content_bytes, trace, is_trace) ==
    IF ~IsSome(possible_content_bytes) THEN Err("content not found")
    ELSE IF is_trace /\ ~IsSome(trace)
         THEN Err("Content query trace requested but none provided.")
         ELSE IF is_trace
              THEN Ok([t |-> "TraceContentInfo",
                       content |-> hex_encode(Unwrap(possible_content_bytes)),
                       trace |-> Unwrap(trace)])
              ELSE Ok(JString(hex_encode(Unwrap(possible_content_bytes))))

(* lines 118-135: the content as a hex string or "0x", alone when          *)
(* untraced, with the trace when traced, an error when there is no trace   *)
FindContentResponse(possible_content_bytes, trace, is_trace) ==
    LET content_response_string ==
            IF IsSome(possible_content_bytes)
            THEN hex_encode(Unwrap(possible_content_bytes))
            ELSE CONTENT_ABSENT
        content == from_value(content_response_string)
    IN  IF ~is_trace THEN Ok(JString(content_response_string))
        ELSE IF IsSome(trace)
             THEN IF content.ok
                  THEN Ok([t |-> "TraceContentInfo",
                           content |-> ContentToJson(content),
                           trace |-> Unwrap(trace)])
                  ELSE Err("invalid content")
             ELSE Err("Content query trace requested but none provided.")

RecursiveFindContent(key, is_trace, get_fails) ==
    LET get == StoreGet(store, key, get_fails)
        local_content == LocalContentOf(get)
        hit == LocalHit(Unwrap(local_content), key, is_trace)
    IN  /\ pc = "idle"
        /\ req' = [endpoint |-> IF is_trace THEN "TraceRecursiveFindContent"
                                ELSE "RecursiveFindContent",
                   content_key |-> key, is_trace |-> is_trace]
        /\ IF IsSome(local_content)
           THEN /\ locals' = [get_ok |-> get.ok, local_hit |-> TRUE,
                              content |-> hit.content, trace |-> hit.trace]
                /\ resp' = FindContentResponse(hit.content, hit.trace, is_trace)
                /\ pc' = "done"
                /\ lookups' = lookups
           ELSE /\ locals' = [get_ok |-> get.ok, local_hit |-> FALSE,
                              content |-> None, trace |-> None]
                /\ resp' = NoResp
                /\ pc' = "lookup_content"
                /\ lookups' = lookups + 1
        /\ UNCHANGED <<store, table, data_radius, written, net, conc, pt>>

(* line 115: overlay.lookup_content returns *)
LookupContentReturns ==
    /\ pc = "lookup_content"
    /\ \E r \in LookupContent(req.content_key, req.is_trace, KnownPeers(table)) :
          /\ locals' = [locals EXCEPT !.content = r.content, !.trace = r.trace]
          /\ resp' = FindContentResponse(r.content, r.trace, req.is_trace)
    /\ pc' = "done"
    /\ UNCHANGED <<store, table, data_radius, req, lookups, written, net, conc, pt>>

-----------------------------------------------------------------------------
(* local_content, lines 139-159 *)

LocalContentResponse(get) ==
    IF get.ok
    THEN IF IsSome(get.val) THEN Ok(JString(hex_encode(Unwrap(get.val))))
         ELSE Ok(JString(CONTENT_ABSENT))
    ELSE Err("Database error while looking for content key in local storage")

LocalContent(key, get_fails) ==
    LET get == StoreGet(store, key, get_fails)
    IN  /\ pc = "idle"
        /\ req' = [endpoint |-> "LocalContent", content_key |-> key]
        /\ locals' = [get_ok |-> get.ok]
        /\ resp' = LocalContentResponse(get)
        /\ pc' = "done"
        /\ UNCHANGED <<store, table, data_radius, lookups, written, net, conc, pt>>

(* store, lines 179-194 *)

StoreResponse(put) ==
    IF put.ok THEN Ok(JBool(TRUE))
    ELSE Ok(JString(<<"database error">>))

Store(key, content_value, put_fails) ==
    LET data == encode(content_value)
        put == StorePut(store, key, data, put_fails)
    IN  /\ pc = "idle"
        /\ req' = [endpoint |-> "Store", content_key |-> key,
                   content_value |-> content_value]
        /\ locals' = [put_ok |-> put.ok]
        /\ store' = put.store
        /\ resp' = StoreResponse(put)
        /\ written' = IF resp'.ok /\ resp'.value = JBool(TRUE)
                      THEN [written EXCEPT ![key] = Some(encode(content_value))]
                      ELSE written
        /\ pc' = "done"
        /\ UNCHANGED <<table, data_radius, lookups, net, conc, pt>>

(* complete_request, line 82: the response is sent and the task ends *)
SendResponse ==
    /\ pc = "done"
    /\ pc' = "idle"
    /\ req' = [endpoint |-> "None"]
    /\ locals' = [get_ok |-> TRUE]
    /\ resp' = NoResp
    /\ lookups' = 0
    /\ net' = NetIdle
    /\ UNCHANGED <<store, table, data_radius, written, conc, pt>>

-----------------------------------------------------------------------------
(* The content requests: store, local content and recursive find-content,  *)
(* with no known peer or with every peer known                             *)

EmptyTable == [p \in Peers |-> None]
FullTable == [p \in Peers |-> Some(1)]

Init ==
    /\ store = [k \in Keys |-> None]
    /\ table \in {EmptyTable, FullTable}
    /\ data_radius = 1
    /\ pc = "idle"
    /\ req = [endpoint |-> "None"]
    /\ locals = [get_ok |-> TRUE]
    /\ resp = NoResp
    /\ lookups = 0
    /\ written = [k \in Keys |-> None]
    /\ NetQuiet /\ ConcQuiet /\ PeertestQuiet

Next ==
    \/ \E k \in Keys, t \in BOOLEAN, f \in BOOLEAN : RecursiveFindContent(k, t, f)
    \/ LookupContentReturns
    \/ \E k \in Keys, f \in BOOLEAN : LocalContent(k, f)
    \/ \E k \in Keys, v \in ContentValues, f \in BOOLEAN : Store(k, v, f)
    \/ SendResponse

Spec == Init /\ [][Next]_vars

-----------------------------------------------------------------------------
(* ping, lines 273-285 *)

(* A u64 as four 16-bit limbs, most significant first; a u32 as two *)
EnrSeqs == {<<0, 0, 0, 1>>, <<0, 1, 0, 1>>, <<65535, 65535, 65535, 65535>>}

(* pong.enr_seq as u32: the low 32 bits *)
AsU32(seq) == <<seq[3], seq[4]>>

(* overlay.send_ping when the pong arrives: the peer's radius is merged    *)
(* into the routing table record of the peer                               *)
MergePong(tbl, enr, pong) == [tbl EXCEPT ![enr] = Some(pong.data_radius)]

(* PingResponse answering a timeout with a default pong *)
PingResponseTimeoutDefault(sent, own_radius) ==
    IF sent.ok
    THEN Ok([t |-> "PongInfo",
             enr_seq |-> AsU32(Unwrap(sent.pong).enr_seq),
             data_radius |-> own_radius])
    ELSE Ok([t |-> "PongInfo", enr_seq |-> <<0, 0>>, data_radius |-> own_radius])

(* lines 278-284: the response built from the result of send_ping and      *)
(* from overlay.data_radius()                                              *)
PingResponse(sent, own_radius) ==
    IF sent.ok
    THEN Ok([t |-> "PongInfo",
             enr_seq |-> AsU32(Unwrap(sent.pong).enr_seq),
             data_radius |-> own_radius])
    ELSE Err("Ping request timeout")

(* lines 277-278: the overlay is cloned and the ping is sent *)
Ping(enr) ==
    /\ pc = "idle"
    /\ req' = [endpoint |-> "Ping", enr |-> enr]
    /\ locals' = [pong |-> None]
    /\ resp' = NoResp
    /\ pc' = "send_ping"
    /\ UNCHANGED <<store, table, data_radius, lookups, written, net, conc, pt>>

(* send_ping returns Ok(pong): the peer answers with its sequence number   *)
(* and its radius                                                          *)
PongArrives(enr_seq, radius) ==
    LET pong == [enr_seq |-> enr_seq, data_radius |-> radius]
    IN  /\ pc = "send_ping"
        /\ table' = MergePong(table, req.enr, pong)
        /\ locals' = [pong |-> Some(pong)]
        /\ resp' = PingResponse([ok |-> TRUE, pong |-> Some(pong)], data_radius)
        /\ pc' = "done"
        /\ UNCHANGED <<store, data_radius, req, lookups, written, net, conc, pt>>

(* send_ping returns Err: the peer did not answer in time *)
PingTimesOut ==
    /\ pc = "send_ping"
    /\ locals' = [pong |-> None]
    /\ resp' = PingResponse([ok |-> FALSE, pong |-> None], data_radius)
    /\ pc' = "done"
    /\ UNCHANGED <<store, table, data_radius, req, lookups, written, net, conc, pt>>

(* The ping requests of a node that starts with an empty routing table *)

InitPing ==
    /\ store = [k \in Keys |-> None]
    /\ table = EmptyTable
    /\ data_radius \in Radii
    /\ pc = "idle"
    /\ req = [endpoint |-> "None"]
    /\ locals = [get_ok |-> TRUE]
    /\ resp = NoResp
    /\ lookups = 0
    /\ written = [k \in Keys |-> None]
    /\ NetQuiet /\ ConcQuiet /\ PeertestQuiet

NextPing ==
    \/ \E p \in Peers : Ping(p)
    \/ \E s \in EnrSeqs, r \in Radii : PongArrives(s, r)
    \/ PingTimesOut
    \/ SendResponse

SpecPing == InitPing /\ [][NextPing]_vars

-----------------------------------------------------------------------------
(* recursive_find_nodes, lines 288-301 *)

MaxNodes == 16
NodeIds == 0..31
Strides == {1, 3, 7, 31}

(* XorMetric::distance: the bitwise exclusive or of the two ids *)
RECURSIVE Xor(_, _)
Xor(a, b) ==
    IF a = 0 /\ b = 0 THEN 0
    ELSE (((a % 2) + (b % 2)) % 2) + 2 * Xor(a \div 2, b \div 2)

Distance(a, b) == Xor(a, b)

(* overlay.lookup_node with a node found twice *)
LookupNodeWithRepeats(target) ==
    {[i \in 1..n |-> (first + ((i - 1) \div 2)) % 32] :
        n \in 0..MaxFound, first \in NodeIds}

(* overlay.lookup_node(target): the candidates the lookup found, each node *)
(* once, in any order: first, first + stride, first + 2 * stride, ...      *)
LookupNode(target) ==
    {[i \in 1..n |-> (first + (i - 1) * stride) % 32] :
        n \in 0..MaxFound, first \in NodeIds, stride \in Strides}

Last(s) == s[Len(s)]
Front(s) == SubSeq(s, 1, Len(s) - 1)

(* Vec::sort_by is a stable sort: an element goes behind every element     *)
(* that is not farther from the target                                     *)
RECURSIVE Insert(_, _, _)
Insert(sorted, x, target) ==
    IF sorted = <<>> THEN <<x>>
    ELSE IF Distance(target, Last(sorted)) <= Distance(target, x)
         THEN Append(sorted, x)
         ELSE Append(Insert(Front(sorted), x, target),
                     Last(sorted))

(* the list left in the order the lookup returned it *)
Unsorted(nodes, target) == nodes

(* lines 295-298: nodes.sort_by(distance to node_id) *)
RECURSIVE SortByDistance(_, _)
SortByDistance(nodes, target) ==
    IF nodes = <<>> THEN <<>>
    ELSE Insert(SortByDistance(Front(nodes), target),
                Last(nodes), target)

(* line 299: into_iter().take(n) *)
Take(nodes, n) == SubSeq(nodes, 1, IF Len(nodes) < n THEN Len(nodes) ELSE n)

RecursiveFindNodesResponse(nodes, target) ==
    Ok([t |-> "Array", items |-> Take(SortByDistance(nodes, target), MaxNodes)])

(* lines 292-294: the overlay is cloned and the node lookup is started *)
RecursiveFindNodes(node_id) ==
    /\ pc = "idle"
    /\ req' = [endpoint |-> "RecursiveFindNodes", node_id |-> node_id]
    /\ locals' = [nodes |-> <<>>]
    /\ resp' = NoResp
    /\ pc' = "lookup_node"
    /\ UNCHANGED <<store, table, data_radius, lookups, written, net, conc, pt>>

(* overlay.lookup_node returns *)
LookupNodeReturns ==
    /\ pc = "lookup_node"
    /\ \E nodes \in LookupNode(req.node_id) :
          /\ locals' = [nodes |-> nodes]
          /\ resp' = RecursiveFindNodesResponse(nodes, req.node_id)
    /\ pc' = "done"
    /\ UNCHANGED <<store, table, data_radius, req, lookups, written, net, conc, pt>>

Targets == NodeIds

InitNodes ==
    /\ store = [k \in Keys |-> None]
    /\ table = FullTable
    /\ data_radius = 1
    /\ pc = "idle"
    /\ req = [endpoint |-> "None"]
    /\ locals = [get_ok |-> TRUE]
    /\ resp = NoResp
    /\ lookups = 0
    /\ written = [k \in Keys |-> None]
    /\ NetQuiet /\ ConcQuiet /\ PeertestQuiet

NextNodes ==
    \/ \E id \in Targets : RecursiveFindNodes(id)
    \/ LookupNodeReturns
    \/ SendResponse

SpecNodes == InitNodes /\ [][NextNodes]_vars

-----------------------------------------------------------------------------
(* Properties of the content requests *)

Done == pc = "done"
IsFindContent ==
    req.endpoint \in {"RecursiveFindContent", "TraceRecursiveFindContent"}
IsTraced == req.endpoint = "TraceRecursiveFindContent"

(* C1: a traced recursive find-content request is never answered with a    *)
(* success that lacks the trace: every success is a TraceContentInfo       *)
(* holding the trace that was obtained, and when content was found and no  *)
(* trace was obtained the answer is an error.                              *)
TracedSuccessCarriesTrace ==
    (Done /\ IsTraced) =>
        /\ resp.ok => /\ resp.value.t = "TraceContentInfo"
                      /\ IsSome(locals.trace)
                      /\ resp.value.trace = Unwrap(locals.trace)
        /\ (IsSome(locals.content) /\ ~IsSome(locals.trace)) => ~resp.ok

ContentFoundWithoutTrace ==
    /\ Done /\ IsTraced
    /\ IsSome(locals.content) /\ ~IsSome(locals.trace)
    /\ ~resp.ok

NoPeersAbsentIsSuccess ==
    (Done /\ IsFindContent /\ ~locals.local_hit /\ KnownPeers(table) = {}) =>
        /\ resp.ok
        /\ ~IsTraced => resp.value = JString(CONTENT_ABSENT)
        /\ IsTraced => /\ resp.value.t = "TraceContentInfo"
                       /\ resp.value.content = CONTENT_ABSENT
                       /\ resp.value.trace.received_from = None

TracedNoPeersAbsent ==
    /\ Done /\ IsTraced /\ ~locals.local_hit /\ KnownPeers(table) = {}
    /\ lookups = 1
    /\ resp.ok

(* C4: a store request whose put fails is answered with an error, and a    *)
(* success response to store means the value is in the store.              *)
StorePutFailureIsError ==
    (Done /\ req.endpoint = "Store") =>
        /\ ~locals.put_ok => ~resp.ok
        /\ resp.ok => store[req.content_key] = Some(encode(req.content_value))

(* C5: a recursive find-content request whose store get fails is answered  *)
(* with an error and starts no network lookup.                             *)
GetFailureIsSurfaced ==
    (IsFindContent /\ ~locals.get_ok) =>
        /\ pc = "done"
        /\ ~resp.ok
        /\ lookups = 0

(* C6: after a store(k, v) that was answered with true, and no later write *)
(* of k, local_content of k answers with the bytes of v; local_content     *)
(* answers "0x" only when the key is not in the store and an error only    *)
(* when the get fails.                                                     *)
StoreThenLocalContent ==
    (Done /\ req.endpoint = "LocalContent") =>
        /\ (IsSome(written[req.content_key]) /\ locals.get_ok) =>
               resp = Ok(JString(hex_encode(Unwrap(written[req.content_key]))))
        /\ resp = Ok(JString(CONTENT_ABSENT)) => store[req.content_key] = None
        /\ ~resp.ok => ~locals.get_ok

-----------------------------------------------------------------------------
(* Properties of recursive find-nodes *)

IsFindNodes == req.endpoint = "RecursiveFindNodes"

(* C7: recursive find-nodes answers with at most 16 of the looked-up       *)
(* nodes, in non-decreasing XOR distance to the target, and no node that   *)
(* was left out is closer to the target than a node that is returned.      *)
ClosestSixteenInOrder ==
    (Done /\ IsFindNodes) =>
        LET items == resp.value.items
            target == req.node_id
            found == {locals.nodes[j] : j \in 1..Len(locals.nodes)}
            returned == {items[i] : i \in 1..Len(items)}
        IN  /\ resp.ok
            /\ Len(items) <= 16
            /\ returned \subseteq found
            /\ \A i \in 1..(Len(items) - 1) :
                  Distance(target, items[i]) <= Distance(target, items[i + 1])
            /\ \A x \in returned, y \in found \ returned :
                  Distance(target, x) <= Distance(target, y)

MoreThanSixteenFound ==
    /\ Done /\ IsFindNodes
    /\ Len(locals.nodes) > 16
    /\ Len(resp.value.items) = 16
    /\ Distance(req.node_id, locals.nodes[1]) > Distance(req.node_id, locals.nodes[2])

-----------------------------------------------------------------------------
(* Properties of ping *)

IsPing == req.endpoint = "Ping"

(* C9: when the pong of the pinged peer arrives, the radius in the answer  *)
(* to the caller and the radius recorded for the peer in the routing table *)
(* are the radius the peer advertised in the pong.                         *)
PongRadiusIsReported ==
    (Done /\ IsPing /\ IsSome(locals.pong)) =>
        /\ resp.ok
        /\ resp.value.data_radius = Unwrap(locals.pong).data_radius
        /\ table[req.enr] = Some(Unwrap(locals.pong).data_radius)

(* C10: a ping that times out is answered with an error and leaves the     *)
(* routing table as it was: a peer that was in it is still in it.          *)
PingTimeoutKeepsTable ==
    [][(pc = "send_ping" /\ pc' = "done" /\ ~IsSome(locals'.pong)) =>
           /\ ~resp'.ok
           /\ table' = table
           /\ \A p \in Peers : IsSome(table[p]) => IsSome(table'[p])]_vars

KnownPeerTimedOut ==
    /\ Done /\ IsPing
    /\ ~IsSome(locals.pong)
    /\ IsSome(table[req.enr])
    /\ ~resp.ok

(* C19: the sequence number in the answer to a successful ping is the      *)
(* 64-bit sequence number of the pong, also when it is 2^32 or more.       *)
PongSeqIsReported ==
    (Done /\ IsPing /\ IsSome(locals.pong)) =>
        /\ resp.ok
        /\ <<0, 0>> \o resp.value.enr_seq = Unwrap(locals.pong).enr_seq

-----------------------------------------------------------------------------
(* offer, lines 243-270 *)

JNumber(n) == [t |-> "Number", n |-> n]

(* content_key.as_ssz_bytes() and content_key.into(): the raw key *)
RawContentKey(key) == <<key>>

(* lines 250-263: a value makes the offer a populated one, of the key and  *)
(* the encoded value; no value makes it an offer of the key alone          *)
OfferMessage(content_key, content_value) ==
    IF IsSome(content_value)
    THEN [form |-> "populated",
          keys |-> RawContentKey(content_key),
          body |-> Some(encode(Unwrap(content_value)))]
    ELSE [form |-> "unsolicited",
          keys |-> RawContentKey(content_key),
          body |-> None]

(* overlay.send_offer and overlay.send_populated_offer: one offer message  *)
(* names the keys to the peer                                              *)
SendOfferMessage(n, msg) == [n EXCEPT !.offers = @ + 1]

(* the peer's Accept Record names the keys it wants *)
AcceptRecords(msg) == SUBSET {msg.keys[i] : i \in 1..Len(msg.keys)}

(* the offered bodies transmitted whatever the Accept Record names *)
TransmitOffered(n, msg, accepted) ==
    [n EXCEPT !.bodies = @ + Len(msg.keys)]

(* the bodies of the accepted keys, and of no other key, are transmitted *)
TransmitAccepted(n, msg, accepted) ==
    [n EXCEPT !.bodies = @ + Cardinality(accepted)]

(* OfferResponse answering a timeout with an empty Accept Record *)
OfferResponseTimeoutEmpty(sent, form) ==
    IF sent.ok THEN Ok([t |-> "AcceptInfo", content_keys |-> sent.accept])
    ELSE Ok([t |-> "AcceptInfo", content_keys |-> {}])

(* lines 256-259 and 264-267: the Accept Record, or the timeout as an error *)
OfferResponse(sent, form) ==
    IF sent.ok THEN Ok([t |-> "AcceptInfo", content_keys |-> sent.accept])
    ELSE IF form = "populated" THEN Err("Populated Offer request timeout")
         ELSE Err("Offer request timeout")

(* lines 249-263: the overlay is cloned and the offer is sent *)
Offer(enr, content_key, content_value) ==
    LET msg == OfferMessage(content_key, content_value)
    IN  /\ pc = "idle"
        /\ req' = [endpoint |-> "Offer", enr |-> enr, content_key |-> content_key,
                   content_value |-> content_value]
        /\ locals' = [msg |-> msg, answered |-> FALSE, accepted |-> {}]
        /\ net' = SendOfferMessage(net, msg)
        /\ resp' = NoResp
        /\ pc' = "send_offer"
        /\ UNCHANGED <<store, table, data_radius, lookups, written, conc, pt>>

(* the send returns Ok(accept) *)
OfferAccepted(accepted) ==
    /\ pc = "send_offer"
    /\ accepted \in AcceptRecords(locals.msg)
    /\ locals' = [locals EXCEPT !.answered = TRUE, !.accepted = accepted]
    /\ net' = TransmitAccepted(net, locals.msg, accepted)
    /\ resp' = OfferResponse([ok |-> TRUE, accept |-> accepted], locals.msg.form)
    /\ pc' = "done"
    /\ UNCHANGED <<store, table, data_radius, req, lookups, written, conc, pt>>

(* the send returns Err: the peer did not answer in time *)
OfferTimesOut ==
    /\ pc = "send_offer"
    /\ resp' = OfferResponse([ok |-> FALSE, accept |-> {}], locals.msg.form)
    /\ pc' = "done"
    /\ UNCHANGED <<store, table, data_radius, req, locals, lookups, written,
                   net, conc, pt>>

-----------------------------------------------------------------------------
(* find_content against a named peer, lines 197-210 *)

(* the Content a peer answers with, and Content::try_into a Value, which   *)
(* fails on an answer that is no content                                   *)
PeerContents == [decodable : BOOLEAN, bytes : Bytes]

TryIntoValue(content) ==
    IF content.decodable
    THEN [ok |-> TRUE, value |-> JString(hex_encode(content.bytes))]
    ELSE [ok |-> FALSE, value |-> JString(<<>>)]

(* DirectFindContentResponse answering an undecodable content with "0x" *)
DirectFindContentResponseAbsent(sent) ==
    IF sent.ok
    THEN IF TryIntoValue(sent.content).ok THEN Ok(TryIntoValue(sent.content).value)
         ELSE Ok(JString(CONTENT_ABSENT))
    ELSE Err("FindContent request timeout")

(* lines 203-209 *)
DirectFindContentResponse(sent) ==
    IF sent.ok
    THEN IF TryIntoValue(sent.content).ok THEN Ok(TryIntoValue(sent.content).value)
         ELSE Err("Content response decoding error")
    ELSE Err("FindContent request timeout")

(* lines 202-203: the overlay is cloned and the request is sent *)
FindContent(enr, content_key) ==
    /\ pc = "idle"
    /\ req' = [endpoint |-> "FindContent", enr |-> enr, content_key |-> content_key]
    /\ locals' = [sent |-> None]
    /\ resp' = NoResp
    /\ pc' = "send_find_content"
    /\ UNCHANGED <<store, table, data_radius, lookups, written, net, conc, pt>>

(* send_find_content returns Ok(content) or Err *)
FindContentReturns(sent) ==
    /\ pc = "send_find_content"
    /\ locals' = [sent |-> Some(sent)]
    /\ resp' = DirectFindContentResponse(sent)
    /\ pc' = "done"
    /\ UNCHANGED <<store, table, data_radius, req, lookups, written, net, conc, pt>>

FindContentResults ==
    {[ok |-> TRUE, content |-> c] : c \in PeerContents}
        \cup {[ok |-> FALSE, content |-> [decodable |-> FALSE, bytes |-> <<>>]]}

-----------------------------------------------------------------------------
(* gossip, lines 230-240 *)

(* overlay.propagate_gossip: the content is pushed to a set of known peers *)
(* and the number of these peers is returned at once                       *)
GossipTargets(tbl) == SUBSET KnownPeers(tbl)

PropagateGossip(n, targets) ==
    [n EXCEPT !.pushes = [p \in Peers |-> IF p \in targets THEN "pending" ELSE @[p]]]

(* GossipResponse answering a gossip to no peer with an error *)
GossipResponseNoPeerError(num_peers) ==
    IF num_peers = 0 THEN Err("no peers") ELSE Ok(JNumber(num_peers))

(* line 239 *)
GossipResponse(num_peers) == Ok(JNumber(num_peers))

Gossip(content_key, content_value) ==
    /\ pc = "idle"
    /\ req' = [endpoint |-> "Gossip", content_key |-> content_key,
               content_value |-> content_value]
    /\ \E targets \in GossipTargets(table) :
          /\ locals' = [data |-> encode(content_value), targets |-> targets]
          /\ net' = PropagateGossip(net, targets)
          /\ resp' = GossipResponse(Cardinality(targets))
    /\ pc' = "done"
    /\ UNCHANGED <<store, table, data_radius, lookups, written, conc, pt>>

(* the transport delivers a push, or fails to; a failure is dropped *)
PushDelivered(p) ==
    /\ net.pushes[p] = "pending"
    /\ net' = [net EXCEPT !.pushes[p] = "delivered"]
    /\ UNCHANGED <<store, table, data_radius, pc, req, locals, resp, lookups,
                   written, conc, pt>>

PushFails(p) ==
    /\ net.pushes[p] = "pending"
    /\ net' = [net EXCEPT !.pushes[p] = "failed"]
    /\ UNCHANGED <<store, table, data_radius, pc, req, locals, resp, lookups,
                   written, conc, pt>>

(* The requests against peers of a node that knows every peer *)

InitPeer ==
    /\ store = [k \in Keys |-> None]
    /\ table = FullTable
    /\ data_radius = 1
    /\ pc = "idle"
    /\ req = [endpoint |-> "None"]
    /\ locals = [get_ok |-> TRUE]
    /\ resp = NoResp
    /\ lookups = 0
    /\ written = [k \in Keys |-> None]
    /\ NetQuiet /\ ConcQuiet /\ PeertestQuiet

NextPeer ==
    \/ \E p \in Peers, k \in Keys, v \in {None} \cup {Some(c) : c \in ContentValues} :
          Offer(p, k, v)
    \/ \E a \in SUBSET Keys : OfferAccepted(a)
    \/ OfferTimesOut
    \/ \E p \in Peers, k \in Keys : FindContent(p, k)
    \/ \E r \in FindContentResults : FindContentReturns(r)
    \/ \E k \in Keys, v \in ContentValues : Gossip(k, v)
    \/ \E p \in Peers : PushDelivered(p)
    \/ \E p \in Peers : PushFails(p)
    \/ SendResponse

SpecPeer == InitPeer /\ [][NextPeer]_vars

-----------------------------------------------------------------------------
(* Properties of the requests against peers *)

IsOffer == req.endpoint = "Offer"
IsGossip == req.endpoint = "Gossip"
IsDirectFindContent == req.endpoint = "FindContent"

(* C11: an offer request sends exactly one offer message, populated (key   *)
(* and body) when a value is given and of the key alone when none is; if   *)
(* the message times out the answer is an error and nothing is sent again. *)
OneOfferMessagePerRequest ==
    (IsOffer /\ pc \in {"send_offer", "done"}) =>
        /\ net.offers = 1
        /\ locals.msg.keys = <<req.content_key>>
        /\ IF IsSome(req.content_value)
           THEN /\ locals.msg.form = "populated"
                /\ locals.msg.body = Some(encode(Unwrap(req.content_value)))
           ELSE /\ locals.msg.form = "unsolicited"
                /\ locals.msg.body = None
        /\ (Done /\ ~locals.answered) => ~resp.ok

PopulatedOfferTimedOut ==
    /\ Done /\ IsOffer
    /\ IsSome(req.content_value)
    /\ ~locals.answered
    /\ net.offers = 1
    /\ ~resp.ok

GossipAnswersTargetCount ==
    (Done /\ IsGossip) =>
        /\ resp = Ok(JNumber(Cardinality(locals.targets)))
        /\ {p \in Peers : net.pushes[p] # "none"} = locals.targets

GossipAnsweredWhileUndelivered ==
    /\ Done /\ IsGossip
    /\ Cardinality(locals.targets) >= 2
    /\ \A p \in locals.targets : net.pushes[p] \in {"pending", "failed"}
    /\ \E p \in locals.targets : net.pushes[p] = "failed"
    /\ \E p \in locals.targets : net.pushes[p] = "pending"
    /\ resp.ok

(* C14: a find-content request against a named peer is answered with an    *)
(* error when the peer's answer cannot be decoded as content and when the  *)
(* request to the peer fails, never with a success.                        *)
DirectFindContentFailureIsError ==
    (Done /\ IsDirectFindContent) =>
        LET sent == Unwrap(locals.sent)
        IN  (~sent.ok \/ ~sent.content.decodable) =>
                /\ ~resp.ok
                /\ resp.value # JString(CONTENT_ABSENT)

UndecodableAnswer ==
    /\ Done /\ IsDirectFindContent
    /\ Unwrap(locals.sent).ok
    /\ ~Unwrap(locals.sent).content.decodable
    /\ ~resp.ok

-----------------------------------------------------------------------------
(* handle_client_queries and the tasks it spawns, lines 35-83: requests    *)
(* arrive on history_rx, the loop spawns one task per request, and each    *)
(* task runs its handler and sends the result on the request's resp        *)

Endpoints == {"Store", "RecursiveFindContent"}

(* The handlers as the sequence of their lock and await steps.  A guard    *)
(* taken in a statement is released at the end of that statement:          *)
(* network.read().await.overlay.clone() (lines 92, 185), the store guard   *)
(* of the match on get (lines 93-104) and of the match on put (lines       *)
(* 186-192).  The handlers that clone the overlay and then await one       *)
(* network call (lines 202-203, 218-219, 249-263, 277-278, 293-294) run    *)
(* the steps of recursive_find_content on a miss without the store guard.  *)

(* recursive_find_content with lookup_content awaited inside the match on  *)
(* store.read().get(): the read guard lives until the end of the match     *)
ProgramGuardAcrossAwait(endpoint) ==
    CASE endpoint = "Store" ->
           <<"net_lock", "net_unlock", "store_wlock", "store_unlock", "send">>
      [] endpoint = "RecursiveFindContent" ->
           <<"net_lock", "net_unlock", "store_rlock", "await_if_miss",
             "store_unlock", "send">>

Program(endpoint) ==
    CASE endpoint = "Store" ->
           <<"net_lock", "net_unlock", "store_wlock", "store_unlock", "send">>
      [] endpoint = "RecursiveFindContent" ->
           <<"net_lock", "net_unlock", "store_rlock", "store_unlock",
             "await_if_miss", "send">>

TaskIds == 1..MaxReq
Spawned(t) == t \in 1..Len(tasks)
Instr(t) == Program(tasks[t].endpoint)[tasks[t].ip]
Ready(t) == Spawned(t) /\ tasks[t].st = "ready"

ConcFrame == UNCHANGED <<store, table, data_radius, pc, req, locals, resp, lookups,
                         written, net, pt>>

(* a client sends a request into the channel *)
Enqueue(endpoint) ==
    /\ ~rx.closed
    /\ Len(clients) < MaxReq
    /\ clients' = Append(clients, [endpoint |-> endpoint, listening |-> TRUE])
    /\ rx' = [rx EXCEPT !.queue = Append(@, Len(clients) + 1)]
    /\ UNCHANGED <<tasks, loop>>
    /\ ConcFrame

(* every sender of the channel is dropped *)
CloseChannel ==
    /\ ~rx.closed
    /\ rx' = [rx EXCEPT !.closed = TRUE]
    /\ UNCHANGED <<tasks, loop, clients>>
    /\ ConcFrame

(* the requester drops the receiving end of resp *)
RequesterDrops(id) ==
    /\ id \in 1..Len(clients)
    /\ clients[id].listening
    /\ clients' = [clients EXCEPT ![id].listening = FALSE]
    /\ UNCHANGED <<rx, tasks, loop>>
    /\ ConcFrame

(* the loop receives although an earlier task has not finished *)
CanReceiveAfterTasksEnd(ts) == \A t \in 1..Len(ts) : ts[t].st = "finished"

(* line 39: the handler is spawned, not awaited, so the loop receives      *)
(* again whatever the tasks spawned before are doing                       *)
CanReceive(ts) == TRUE

(* recv() returning None on an empty queue *)
RecvReturnsNoneWhenEmpty(r) == r.queue = <<>>

(* line 37: recv() returns None when the channel is closed and drained *)
RecvReturnsNone(r) == r.queue = <<>> /\ r.closed

(* line 37: recv() returns Some(request) *)
LoopReceives ==
    /\ loop.pc = "recv"
    /\ CanReceive(tasks)
    /\ rx.queue # <<>>
    /\ loop' = [pc |-> "spawn", request |-> Head(rx.queue)]
    /\ rx' = [rx EXCEPT !.queue = Tail(@)]
    /\ UNCHANGED <<tasks, clients>>
    /\ ConcFrame

(* lines 38-39: tokio::spawn(complete_request(network, request)) *)
LoopSpawns ==
    /\ loop.pc = "spawn"
    /\ tasks' = Append(tasks, [id |-> loop.request,
                               endpoint |-> clients[loop.request].endpoint,
                               ip |-> 1, st |-> "ready", holds |-> {},
                               sends |-> 0, outcome |-> "none"])
    /\ loop' = [pc |-> "recv"]
    /\ UNCHANGED <<rx, clients>>
    /\ ConcFrame

(* line 37: the while let ends *)
LoopEnds ==
    /\ loop.pc = "recv"
    /\ RecvReturnsNone(rx)
    /\ loop' = [pc |-> "ended"]
    /\ UNCHANGED <<rx, tasks, clients>>
    /\ ConcFrame

TaskFrame == UNCHANGED <<rx, loop, clients>> /\ ConcFrame

Advance(t, holds) ==
    tasks' = [tasks EXCEPT ![t].ip = @ + 1, ![t].holds = holds]

(* network.read().await: the read guard of the network RwLock *)
TaskLocksNetwork(t) ==
    /\ Ready(t) /\ Instr(t) = "net_lock"
    /\ Advance(t, tasks[t].holds \cup {"network"})
    /\ TaskFrame

TaskUnlocksNetwork(t) ==
    /\ Ready(t) /\ Instr(t) = "net_unlock"
    /\ Advance(t, tasks[t].holds \ {"network"})
    /\ TaskFrame

(* store.read() waits for a writer, store.write() for every other holder *)
TaskLocksStore(t) ==
    /\ Ready(t) /\ Instr(t) \in {"store_rlock", "store_wlock"}
    /\ \A u \in 1..Len(tasks) : u # t => "store_w" \notin tasks[u].holds
    /\ Instr(t) = "store_wlock" =>
          \A u \in 1..Len(tasks) : u # t => "store_r" \notin tasks[u].holds
    /\ Advance(t, tasks[t].holds
                    \cup {IF Instr(t) = "store_wlock" THEN "store_w" ELSE "store_r"})
    /\ TaskFrame

TaskUnlocksStore(t) ==
    /\ Ready(t) /\ Instr(t) = "store_unlock"
    /\ Advance(t, tasks[t].holds \ {"store_r", "store_w"})
    /\ TaskFrame

(* the local hit of recursive_find_content: no network request *)
TaskSkipsLookup(t) ==
    /\ Ready(t) /\ Instr(t) = "await_if_miss"
    /\ Advance(t, tasks[t].holds)
    /\ TaskFrame

(* a network request is sent and awaited; the peer may stay silent *)
TaskAwaits(t) ==
    /\ Ready(t) /\ Instr(t) \in {"await", "await_if_miss"}
    /\ \E st \in {"awaiting", "silent"} : tasks' = [tasks EXCEPT ![t].st = st]
    /\ TaskFrame

(* the awaited network request completes, with an answer or a timeout *)
NetCompletes(t) ==
    /\ Spawned(t) /\ tasks[t].st = "awaiting"
    /\ tasks' = [tasks EXCEPT ![t].st = "ready", ![t].ip = @ + 1]
    /\ TaskFrame

(* resp.send(response).unwrap(): a panic when nobody listens *)
SendOutcomeUnwrap(listening) == IF listening THEN "delivered" ELSE "panicked"

(* line 82: let _ = request.resp.send(response): the Err of a send to a    *)
(* dropped receiver is ignored                                             *)
SendOutcome(listening) == IF listening THEN "delivered" ELSE "dropped"

TaskSends(t) ==
    /\ Ready(t) /\ Instr(t) = "send"
    /\ tasks' = [tasks EXCEPT ![t].ip = @ + 1,
                              ![t].st = "finished",
                              ![t].sends = @ + 1,
                              ![t].outcome = SendOutcome(clients[tasks[t].id].listening)]
    /\ TaskFrame

InitConc ==
    /\ store = [k \in Keys |-> None]
    /\ table = FullTable
    /\ data_radius = 1
    /\ pc = "idle"
    /\ req = [endpoint |-> "None"]
    /\ locals = [get_ok |-> TRUE]
    /\ resp = NoResp
    /\ lookups = 0
    /\ written = [k \in Keys |-> None]
    /\ NetQuiet /\ ConcQuiet /\ PeertestQuiet

TaskStep(t) ==
    \/ TaskLocksNetwork(t)
    \/ TaskUnlocksNetwork(t)
    \/ TaskLocksStore(t)
    \/ TaskUnlocksStore(t)
    \/ TaskSkipsLookup(t)
    \/ TaskAwaits(t)
    \/ NetCompletes(t)
    \/ TaskSends(t)

NextConc ==
    \/ \E e \in Endpoints : Enqueue(e)
    \/ CloseChannel
    \/ \E id \in TaskIds : RequesterDrops(id)
    \/ LoopReceives
    \/ LoopSpawns
    \/ LoopEnds
    \/ \E t \in TaskIds : TaskStep(t)

(* The runtime does not idle while the loop or a spawned task can run: a   *)
(* step of one of them is taken when one stays possible                    *)
SpecConc ==
    /\ InitConc
    /\ [][NextConc]_vars
    /\ WF_vars(LoopReceives \/ LoopSpawns \/ LoopEnds
                  \/ \E t \in TaskIds : TaskStep(t))

-----------------------------------------------------------------------------
(* Properties of the request loop and its tasks *)

Sent(id) == id \in 1..Len(clients)
InQueue(id) == \E n \in 1..Len(rx.queue) : rx.queue[n] = id
InHand(id) == loop.pc = "spawn" /\ loop.request = id
TaskOf(id) == {t \in 1..Len(tasks) : tasks[t].id = id}
Dequeued(id) == InHand(id) \/ TaskOf(id) # {}
Answered(id) == \E t \in TaskOf(id) : tasks[t].st = "finished"
PeerSilent(id) == \E t \in TaskOf(id) : tasks[t].st = "silent"
Waiting(t) == tasks[t].st \in {"awaiting", "silent"}

(* C15: every request in the queue is dequeued, handled and answered       *)
(* unless its own network request never completes, whatever the requests   *)
(* that arrived before it are waiting for.                                 *)
RequestsHandledIndependently ==
    \A id \in TaskIds : InQueue(id) ~> (Answered(id) \/ PeerSilent(id))

AnsweredWhileEarlierWaits ==
    /\ Len(tasks) >= 2
    /\ tasks[1].id < tasks[2].id
    /\ tasks[1].st = "silent"
    /\ tasks[2].st = "finished"
    /\ tasks[2].outcome = "delivered"

(* C16: when the requester has stopped listening, the task of the request  *)
(* still runs to its end, its send drops the result without an error, and  *)
(* that send changes nothing of the queue, the loop or any other task.     *)
AbandonedRequestCompletes ==
    /\ [](\A t \in 1..Len(tasks) :
             /\ tasks[t].outcome # "panicked"
             /\ (tasks[t].st = "finished" /\ tasks[t].outcome # "delivered")
                   => (tasks[t].outcome = "dropped" /\ ~clients[tasks[t].id].listening))
    /\ [][\A t \in 1..Len(tasks) :
             (tasks[t].st # "finished" /\ tasks'[t].st = "finished"
              /\ ~clients[tasks[t].id].listening)
                => /\ rx' = rx /\ loop' = loop /\ clients' = clients
                   /\ \A u \in 1..Len(tasks) : u # t => tasks'[u] = tasks[u]]_vars
    /\ []<>(\A id \in 1..Len(clients) :
               (TaskOf(id) # {} /\ ~clients[id].listening)
                  => (Answered(id) \/ PeerSilent(id)))

DroppedThenDelivered ==
    /\ Len(tasks) >= 2
    /\ tasks[1].st = "finished" /\ tasks[1].outcome = "dropped"
    /\ tasks[2].st = "finished" /\ tasks[2].outcome = "delivered"

(* C17: no task holds the guard of the network lock or of the store lock   *)
(* while it waits for the answer to a network request.                     *)
NoGuardAcrossAwait ==
    \A t \in 1..Len(tasks) : Waiting(t) => tasks[t].holds = {}

WriterRunsDuringRoundTrip ==
    \E t, u \in 1..Len(tasks) :
        /\ tasks[t].st = "silent"
        /\ tasks[t].endpoint = "RecursiveFindContent"
        /\ "store_w" \in tasks[u].holds

(* C18: a request taken from the queue is spawned once and answered at     *)
(* most once, and once when its operation ends; no request is lost between *)
(* the queue and its task; the loop ends only when the channel is closed   *)
(* and drained.                                                            *)
EachRequestAnsweredOnce ==
    /\ [](/\ \A t \in 1..Len(tasks) :
                /\ tasks[t].sends <= 1
                /\ tasks[t].st = "finished" <=> tasks[t].sends = 1
          /\ \A id \in 1..Len(clients) :
                /\ Cardinality(TaskOf(id)) <= 1
                /\ InQueue(id) \/ Dequeued(id)
                /\ ~(InQueue(id) /\ Dequeued(id))
                /\ ~(InHand(id) /\ TaskOf(id) # {})
          /\ loop.pc = "ended" => (rx.closed /\ rx.queue = <<>>))
    /\ []<>(\A id \in 1..Len(clients) :
               Dequeued(id) => (Answered(id) \/ PeerSilent(id)))

LoopEndedAllAnswered ==
    /\ loop.pc = "ended"
    /\ Len(tasks) = MaxReq
    /\ \A t \in 1..Len(tasks) : tasks[t].st = "finished" /\ tasks[t].sends = 1

-----------------------------------------------------------------------------
(* ethportal-peertest/src/lib.rs: launching the bootnode and its buddies   *)

MaxCount == 3       \* the counts 0..MaxCount are launched, and the largest u8
MaxAhead == 2       \* launches started past the oldest one still in flight
U8Max == 255
BasePort == 9000

Counts == (0..MaxCount) \cup {U8Max}

(* to_string() and {id} of format!: the decimal digits of the number *)
RECURSIVE Decimal(_)
Decimal(n) == IF n < 10 THEN <<n>> ELSE Append(Decimal(n \div 10), n % 10)

(* lines 31-39: id += 1 on a u8 panics in a build with overflow checks and *)
(* wraps in a build without them                                           *)
get_peertest_id_for_node(id, bootnode_enr) ==
    IF IsSome(bootnode_enr)
    THEN IF id + 1 > U8Max
         THEN {[panic |-> TRUE, id |-> id], [panic |-> FALSE, id |-> (id + 1) % (U8Max + 1)]}
         ELSE {[panic |-> FALSE, id |-> id + 1]}
    ELSE {[panic |-> FALSE, id |-> id]}

(* lines 45-47 *)
DiscoveryPort(id) == BasePort + id
Web3IpcPath(id) == <<"/tmp/ethportal-peertest-buddy-">> \o Decimal(id) \o <<".ipc">>

(* lines 48-67: the arguments of the node; --bootnodes only with an ENR *)
TrinConfigArgs(id, bootnode_enr) ==
    [bootnodes |-> bootnode_enr,
     discovery_port |-> Decimal(DiscoveryPort(id)),
     web3_ipc_path |-> Web3IpcPath(id)]

(* lines 42-70: launch_node up to the await of run_trin *)
LaunchStarted(id, bootnode_enr) ==
    [id |-> id, args |-> TrinConfigArgs(id, bootnode_enr), st |-> "running",
     enr |-> None, exiter |-> None]

(* lines 70-73: run_trin gives the exiter of the node, get_enode the ENR   *)
(* of the node that serves the IPC path                                    *)
LaunchDone(l) ==
    [l EXCEPT !.st = "done", !.enr = Some(<<"enr">> \o l.args.web3_ipc_path),
              !.exiter = Some(l.id)]

(* the range 1..=count *)
NodeRangeInclusive(count) == 1..count

(* line 79: the range 1..count, without count *)
NodeRange(count) == 1..(count - 1)

Launching == pt.pc \in {"bootnode", "join"}
Running == {n \in 1..Len(pt.launches) : pt.launches[n].st = "running"}

PeertestFrame == UNCHANGED <<store, table, data_radius, pc, req, locals, resp, lookups,
                             written, net, conc>>

(* line 77: launch_node(1, None) is called *)
LaunchPeertestNodes(count) ==
    /\ pt.pc = "idle"
    /\ \E o \in get_peertest_id_for_node(1, None) :
          pt' = [pc |-> "bootnode", count |-> count, overflow |-> o.panic,
                 launches |-> <<LaunchStarted(o.id, None)>>,
                 all |-> None, exits |-> {}]
    /\ PeertestFrame

(* line 77: the bootnode is up and its ENR read; the await returns *)
BootnodeUp ==
    /\ pt.pc = "bootnode"
    /\ pt' = [pt EXCEPT !.pc = "join", !.launches[1] = LaunchDone(@)]
    /\ PeertestFrame

(* lines 78-82: try_join_all polls the next launch_node(id, Some(enr)) *)
NodeStarts ==
    /\ pt.pc = "join"
    /\ Len(pt.launches) \in NodeRange(pt.count)
    /\ \A n \in Running : Len(pt.launches) - n < MaxAhead
    /\ LET bootnode_enr == Some(Unwrap(pt.launches[1].enr))
       IN \E o \in get_peertest_id_for_node(Len(pt.launches), bootnode_enr) :
             IF o.panic
             THEN pt' = [pt EXCEPT !.pc = "panicked", !.overflow = TRUE]
             ELSE pt' = [pt EXCEPT !.overflow = @ \/ (o.id # Len(pt.launches) + 1),
                                   !.launches = Append(@, LaunchStarted(o.id, bootnode_enr))]
    /\ PeertestFrame

(* lines 70-73 of a launch of try_join_all *)
NodeUp(n) ==
    /\ pt.pc = "join"
    /\ n \in Running
    /\ pt' = [pt EXCEPT !.launches[n] = LaunchDone(@)]
    /\ PeertestFrame

(* lines 68-71, 77, 84: run_trin or get_enode fails; each unwrap panics *)
LaunchFails ==
    /\ Launching
    /\ Running # {}
    /\ pt' = [pt EXCEPT !.pc = "panicked"]
    /\ PeertestFrame

(* lines 83-85: every launch of the range is done *)
JoinReturns ==
    /\ pt.pc = "join"
    /\ \A a \in NodeRange(pt.count) :
          a + 1 <= Len(pt.launches) /\ pt.launches[a + 1].st = "done"
    /\ pt' = [pt EXCEPT !.pc = "launched",
                        !.all = Some([bootnode |-> pt.launches[1],
                                      nodes |-> Tail(pt.launches)])]
    /\ PeertestFrame

(* lines 25-28: AllPeertestNodes::exit *)
Exit ==
    /\ pt.pc = "launched"
    /\ LET all == Unwrap(pt.all)
       IN pt' = [pt EXCEPT !.pc = "exited",
                           !.exits = {Unwrap(all.bootnode.exiter)}
                                     \cup {Unwrap(all.nodes[n].exiter) : n \in 1..Len(all.nodes)}]
    /\ PeertestFrame

InitPeertest ==
    /\ store = [k \in Keys |-> None]
    /\ table = FullTable
    /\ data_radius = 1
    /\ pc = "idle"
    /\ req = [endpoint |-> "None"]
    /\ locals = [get_ok |-> TRUE]
    /\ resp = NoResp
    /\ lookups = 0
    /\ written = [k \in Keys |-> None]
    /\ NetQuiet /\ ConcQuiet /\ PeertestQuiet

NextPeertest ==
    \/ \E count \in Counts : LaunchPeertestNodes(count)
    \/ BootnodeUp
    \/ NodeStarts
    \/ \E n \in 1..U8Max : NodeUp(n)
    \/ LaunchFails
    \/ JoinReturns
    \/ Exit

SpecPeertest == InitPeertest /\ [][NextPeertest]_vars

Launches == IF pt.pc = "idle" THEN <<>> ELSE pt.launches
Others == 2..Len(Launches)

(* C20: the bootnode has peertest id 1 and is up before another launch     *)
(* starts; every other launch is given the bootnode's ENR; the others have *)
(* the ids 2..count; ids, discovery ports 9000+id and IPC paths are        *)
(* pairwise distinct; the u8 id does not overflow; exit signals the exiter *)
(* of the bootnode and of every launched node.                             *)
PeertestLaunchOrderAndIds ==
    pt.pc # "idle" =>
        /\ ~pt.overflow
        /\ Launches[1].id = 1 /\ Launches[1].args.bootnodes = None
        /\ \A n \in Others :
              /\ Launches[1].st = "done"
              /\ Launches[n].args.bootnodes = Launches[1].enr
              /\ Launches[n].id = n /\ n <= pt.count
        /\ \A n \in 1..Len(Launches) :
              Launches[n].args.discovery_port = Decimal(BasePort + Launches[n].id)
        /\ Cardinality({Launches[n].id : n \in 1..Len(Launches)}) = Len(Launches)
        /\ Cardinality({Launches[n].args.discovery_port : n \in 1..Len(Launches)})
              = Len(Launches)
        /\ Cardinality({Launches[n].args.web3_ipc_path : n \in 1..Len(Launches)})
              = Len(Launches)
        /\ pt.pc \in {"launched", "exited"} =>
              /\ \A id \in 2..pt.count : id <= Len(Launches)
              /\ \A n \in 1..Len(Launches) : Launches[n].st = "done"
        /\ pt.pc = "exited" =>
              \A n \in 1..Len(Launches) : Unwrap(Launches[n].exiter) \in pt.exits

LargestCountLaunchedAndExited ==
    /\ pt.pc = "exited"
    /\ pt.count = U8Max
    /\ Len(pt.launches) = U8Max
    /\ Cardinality(pt.exits) = U8Max

====
